---- MODULE Spec2Model ----
(***************************************************************************)
(* One AMQP worker process of oxalis (src/oxalis/base.py, amqp.py): the    *)
(* consumer activities started by _run_worker, the per-message dispatch    *)
(* and acknowledgement path, the heartbeat / graceful-shutdown coroutine   *)
(* work(), and the close signal handler.  Every action is one run of the   *)
(* event loop between two suspension points (await) of a coroutine.        *)
(*                                                                         *)
(* Further specifications over the same state: KafkaSpec, a log-broker     *)
(* process (src/oxalis/kafka.py) from task registration to its consumer    *)
(* activities and shutdown; QosSpec, the deliveries of an AMQP worker in   *)
(* its heartbeat loop under the broker's per-consumer prefetch limit;      *)
(* SetupSpec, task registration on a runtime of either driver;            *)
(* ProducerSpec, an application process calling config() and delay() on a  *)
(* task of an AMQP runtime; InvocationSpec, the same process with its      *)
(* coroutines each evaluating config(...).delay(...) on the one task; and  *)
(* WorkerSpec, a worker of either driver receiving and executing messages. *)
(***************************************************************************)
EXTENDS Integers, Sequences, FiniteSets, TLC

\* Bounds of the model.
NumQueues == 2
MaxMsgs == 1
MaxSignals == 2
MaxDeliveries == 2
PrefetchCount == 1
MaxDelays == 2

Queues == 1..NumQueues
Msgs == 1..MaxMsgs

VARIABLES
    running,          \* Oxalis.running
    is_worker,        \* Oxalis.is_worker
    close_count,      \* Oxalis._on_close_signal_count
    consuming_count,  \* Oxalis.consuming_count
    health,           \* Oxalis.health
    pool_running,     \* pools[0].running
    connected,        \* the connection and its channels are open
    consumer,         \* per queue: position of its _receive_message activity / consumer
    consumer_tags,    \* Oxalis.consumer_tags, in insertion order (a dict keeps it)
    workPc,           \* suspension point of work(), or how the process ended
    iterPos,          \* wait_close: items the consumer_tags iterator has yielded
    iterSize,         \* wait_close: size of consumer_tags when the iterator was made
    readyFile,        \* READY_FILE_PATH exists
    heartbeatFile,    \* HEARTBEAT_FILE_PATH exists
    msgs,             \* per delivery: state, payload, and the calls made on it
    signals,          \* SIGINT/SIGTERM deliveries handled by close() so far
    ktasks,           \* kafka Oxalis.tasks, in insertion order
    ktopics,          \* kafka Oxalis.topics
    activities,       \* kafka: the _start_consumer activities, in creation order
    error,            \* the exception the last register()/delay() call ended with
    msg_queue,        \* per delivery: the queue whose consumer got it (0: not recorded)
    registry,         \* amqp Oxalis.tasks of an application process, in insertion order
    exchanges,        \* amqp Oxalis.exchanges of that process
    test,             \* Oxalis.test of that process
    priority,         \* Task.priority of the application's task
    headers,          \* Task.headers of that task (its keys)
    published,        \* the messages exchange.publish has sent, in order
    calls,            \* inline invocations of the task's callable by delay()
    delays            \* per delay() call: its suspension point or how it ended

vars == <<running, is_worker, close_count, consuming_count, health, pool_running,
          connected, consumer, consumer_tags, workPc, iterPos, iterSize,
          readyFile, heartbeatFile, msgs, signals, ktasks, ktopics, activities,
          error, msg_queue, registry, exchanges, test, priority, headers,
          published, calls, delays>>

kafkaVars == <<ktasks, ktopics, activities>>

\* State of the runtimes other than the AMQP worker's.
\* The AMQP runtime of an application process.
producerVars == <<test, priority, headers, published, calls, delays>>

appVars == <<registry, exchanges, producerVars>>

auxVars == <<kafkaVars, error, msg_queue, appVars>>

workerVars == <<running, is_worker, close_count, health, signals>>
workVars == <<workPc, iterPos, iterSize, readyFile, heartbeatFile, connected>>
consumerVars == <<consumer, consumer_tags>>

-----------------------------------------------------------------------------
(* Task policies and the registry *)

Flags == [ack_later : BOOLEAN, ack_always : BOOLEAN,
          reject : BOOLEAN, reject_requeue : BOOLEAN]

\* amqp.Task.__init__ accepting ack_always together with reject.
TaskInitAllowsConflict(t) ==
    /\ ~(~t.ack_later /\ t.reject)
    /\ ~(t.ack_always /\ ~t.ack_later)
    /\ ~(t.reject_requeue /\ ~t.reject)

\* amqp.Task.__init__: TRUE iff construction does not raise ValueError.
TaskInit(t) ==
    /\ ~(t.ack_always /\ t.reject)
    /\ ~(~t.ack_later /\ t.reject)
    /\ ~(t.ack_always /\ ~t.ack_later)
    /\ ~(t.reject_requeue /\ ~t.reject)

\* The registry after setup: register() was tried for every flag combination,
\* a task is named by its flags, and a combination whose construction raises
\* never reaches register_task.
tasks == {t \in Flags : TaskInit(t)}

\* A name no registration put into the registry.
UnknownName == [ack_later |-> FALSE, ack_always |-> TRUE,
                reject |-> TRUE, reject_requeue |-> TRUE]

-----------------------------------------------------------------------------
(* Wire payloads and the codec *)

\* Bytes that are not JSON.
Garbage == [json |-> FALSE, items |-> <<>>]

\* TaskCodec.encode: [name, list(args), kwargs] as JSON bytes.
encode(name) == [json |-> TRUE, items |-> <<name, <<>>, <<>>>>]

\* What a queue can hold: garbage, JSON of the wrong shape, a well-formed
\* message naming an unknown task, and the encoding of every registered task.
Contents ==
    {Garbage, [json |-> TRUE, items |-> <<UnknownName>>]}
        \cup {encode(n) : n \in tasks \cup {UnknownName}}

\* TaskCodec.decode: json.loads raises on bytes that are not JSON.
decode(content) ==
    IF content.json THEN [err |-> FALSE, val |-> content.items]
                    ELSE [err |-> TRUE, val |-> <<>>]

\* Oxalis.load_task: decode, unpack three values, look the name up.
\* err is TRUE where the Python raises (JSONDecodeError, ValueError).
load_from(registered, content) ==
    LET d == decode(content) IN
    IF d.err \/ Len(d.val) # 3 THEN [err |-> TRUE, name |-> UnknownName]
    ELSE IF d.val[1] \notin registered THEN [err |-> TRUE, name |-> d.val[1]]
    ELSE [err |-> FALSE, name |-> d.val[1]]

\* load_task of the AMQP worker, whose registry is tasks.
load_task(content) == load_from(tasks, content)

-----------------------------------------------------------------------------
(* The pool (oxalis/pool.py) *)

\* A delivery not made yet.  st is where its handling stands, log the calls
\* made on the message ("ack", "reject_requeue", "reject_drop"), the callable's
\* invocation ("call") and the error leaving exec_task ("error"), in order;
\* before_close records that running was still true when it was delivered.
Undelivered ==
    [st |-> "undelivered", content |-> Garbage, log |-> <<>>, before_close |-> FALSE]

\* The executions the primary pool holds: spawned and not yet terminated.
PoolInFlight == {m \in Msgs : msgs[m].st \in {"spawned", "acking", "running"}}

\* Pool.wait_close returns only when every in-flight unit has terminated.
PoolWaitCloseDone == PoolInFlight = {}

\* The timeout guard of a spawned unit can fire once the unit is suspended.
PoolDeadline(m) == msgs[m].st \in {"acking", "running"}

\* Pool.force_close: in-flight units are cancelled.
PoolForceClose(ms) ==
    [m \in Msgs |->
        IF ms[m].st \in {"spawned", "acking", "running"}
        THEN [ms[m] EXCEPT !.st = "aborted"] ELSE ms[m]]

Alive == workPc \notin {"returned", "crashed", "exited"}

Delays == 1..MaxDelays

\* A delay() call not made yet: msg is the message its send_task built, err
\* the error it ended with, cfg the arguments of the config() call it was
\* chained to (given is FALSE for a delay() without config()).
NotCalled == [pc |-> "idle", msg |-> [priority |-> "None", headers |-> {}],
              err |-> "none",
              cfg |-> [given |-> FALSE, priority |-> "None", headers |-> {}]]

\* The producer side of a runtime constructed with test in tests: the task's
\* priority and headers as Task.__init__ sets them, nothing published or
\* called.
ProducerInit(tests) ==
    /\ test \in tests
    /\ priority = "None"
    /\ headers = {}
    /\ published = <<>>
    /\ calls = 0
    /\ delays = [i \in Delays |-> NotCalled]

TypeOK ==
    /\ running \in BOOLEAN /\ is_worker \in BOOLEAN /\ health \in BOOLEAN
    /\ close_count \in 0..3 /\ signals \in 0..(MaxSignals + 3)
    /\ consuming_count \in 0..Len(msgs) \cup 0..Len(activities)
    /\ pool_running \in BOOLEAN /\ connected \in BOOLEAN
    /\ consumer \in [Queues -> {"pending", "consuming", "cancelled"}]
    /\ consumer_tags \in Seq(Queues) /\ Len(consumer_tags) <= NumQueues
    /\ workPc \in {"setup", "entry", "sleep", "cancelling", "wait_consuming", "drain_start",
                   "draining", "disconnecting", "returned", "crashed", "exited"}
    /\ iterPos \in 0..NumQueues /\ iterSize \in 0..NumQueues
    /\ readyFile \in BOOLEAN /\ heartbeatFile \in BOOLEAN
    /\ msg_queue \in [DOMAIN msgs -> {0} \cup Queues]
    /\ \A m \in DOMAIN msgs :
        /\ msgs[m].st \in {"undelivered", "rejecting", "dispatch_failed", "spawned",
                           "acking", "running", "succeeded", "raised", "timedout",
                           "aborted"}
        /\ msgs[m].content \in Contents
        /\ Len(msgs[m].log) <= 4
        /\ msgs[m].before_close \in BOOLEAN
    /\ error \in {"none", "double task", "policy conflict"}
    /\ \A i \in DOMAIN registry :
        /\ registry[i].name \in {"a1", "a2"}
        /\ registry[i].flags \in Flags
        /\ registry[i].exchange \in {"default_exchange", "X"}
    /\ exchanges \in Seq({"default_exchange", "X"})
    /\ test \in BOOLEAN /\ priority \in {"None", "9"} /\ headers \subseteq {"x"}
    /\ calls \in 0..MaxDelays
    /\ Len(published) <= MaxDelays
    /\ \A i \in Delays :
        /\ delays[i].pc \in {"idle", "created", "calling", "publishing", "returned",
                              "raised"}
        /\ delays[i].cfg.given \in BOOLEAN
        /\ delays[i].err \in {"none", "not register", "callable", "publish"}
    /\ \A i \in DOMAIN ktasks :
        /\ ktasks[i].name \in {"k1", "k2"}
        /\ ktasks[i].topic \in {"default_topic", "t1"}
        /\ ktasks[i].pool \in {"P1", "P2"}
    /\ ktopics \subseteq {"default_topic", "t1"}
    /\ \A a \in DOMAIN activities :
        /\ activities[a].pool \in {"P1", "P2"}
        /\ activities[a].pc \in {"created", "starting", "polling", "executing",
                                  "stopping", "stopped", "failed"}
        /\ activities[a].outcome \in {"none", "load_failed", "returned", "raised",
                                       "timeout"}
        /\ activities[a].logged \in BOOLEAN
        /\ activities[a].commits \in Nat

\* The state of a worker process when run_worker has called _run_worker and is
\* about to run work(): running and is_worker set, connect() done, one
\* _receive_message activity scheduled per unique queue, nothing delivered.
Init ==
    /\ running = TRUE
    /\ is_worker = TRUE
    /\ close_count = 0
    /\ consuming_count = 0
    /\ health = TRUE
    /\ pool_running = TRUE
    /\ connected = TRUE
    /\ consumer = [q \in Queues |-> "pending"]
    /\ consumer_tags = <<>>
    /\ workPc = "entry"
    /\ iterPos = 0
    /\ iterSize = 0
    /\ readyFile = FALSE
    /\ heartbeatFile = FALSE
    /\ msgs = [m \in Msgs |-> Undelivered]
    /\ signals = 0
    /\ ktasks = <<>>
    /\ ktopics = {}
    /\ activities = <<>>
    /\ error = "none"
    /\ msg_queue = [m \in Msgs |-> 0]
    /\ registry = <<>>
    /\ exchanges = <<>>
    /\ ProducerInit({FALSE})

-----------------------------------------------------------------------------
(* Consumers *)

\* _receive_message: the channel is opened, QoS set, consume() returns the tag
\* and the tag is stored.  The activity was scheduled by _run_worker and the
\* event loop runs it only once run_until_complete(work()) has started.
ReceiveMessage(q) ==
    /\ Alive /\ connected
    /\ workPc # "entry"
    /\ consumer[q] = "pending"
    /\ consumer' = [consumer EXCEPT ![q] = "consuming"]
    /\ consumer_tags' = Append(consumer_tags, q)
    /\ UNCHANGED <<workerVars, workVars, consuming_count, pool_running, msgs>>
    /\ UNCHANGED auxVars

-----------------------------------------------------------------------------
(* Dispatch: _on_message -> on_message_receive -> load_and_execute_task *)

\* load_and_execute_task's except branch: message.reject(requeue=True).
DispatchFailure == "reject_requeue"

\* load_and_execute_task handing every decodable task to the pool.
DispatchAcceptsAlways(content) == ~load_task(content).err

\* load_and_execute_task's try block: TRUE iff the task reaches pool.spawn.
DispatchAccepts(content) == ~load_task(content).err /\ pool_running

\* _on_message for delivery m with payload c, up to its first suspension
\* point.  When the task is spawned the callback returns without suspending
\* (consuming_count goes up and down in the same run); otherwise it suspends
\* in reject().
Dispatch(m, c) ==
    IF DispatchAccepts(c)
    THEN /\ msgs' = [msgs EXCEPT ![m] =
                [st |-> "spawned", content |-> c, log |-> <<>>,
                 before_close |-> running]]
         /\ UNCHANGED consuming_count
    ELSE /\ msgs' = [msgs EXCEPT ![m] =
                [st |-> "rejecting", content |-> c, log |-> <<DispatchFailure>>,
                 before_close |-> running]]
         /\ consuming_count' = consuming_count + 1

\* A delivery to some consumer.  The prefetch limit is left out: the default
\* consumer_prefetch_count of a queue is above MaxMsgs.
OnMessage(m, c) ==
    /\ Alive /\ connected
    /\ \E q \in Queues : consumer[q] = "consuming"
    /\ msgs[m].st = "undelivered"
    /\ \A k \in Msgs : k < m => msgs[k].st # "undelivered"
    /\ Dispatch(m, c)
    /\ UNCHANGED <<workerVars, workVars, consumerVars, pool_running>>
    /\ UNCHANGED auxVars

\* reject() returns; the error is re-raised, logged by on_message_receive, and
\* _on_message's finally runs.
OnMessageRejected(m) ==
    /\ Alive
    /\ msgs[m].st = "rejecting"
    /\ msgs' = [msgs EXCEPT ![m].st = "dispatch_failed"]
    /\ consuming_count' = consuming_count - 1
    /\ UNCHANGED <<workerVars, workVars, consumerVars, pool_running>>
    /\ UNCHANGED auxVars

-----------------------------------------------------------------------------
(* exec_task *)

TaskOf(m) == load_task(msgs[m].content).name

\* exec_task never acking on entry.
AckOnEntryNever(t) == FALSE

\* exec_task line 284: ack before the callable when not ack_later.
AckOnEntry(t) == ~t.ack_later

\* exec_task line 294: ack after the callable returned.
AckOnSuccess(t) == t.ack_later

\* exec_task's except branch with the requeue flag inverted.
OnFailureRequeueInverted(t) ==
    IF t.reject THEN <<IF t.reject_requeue THEN "reject_drop" ELSE "reject_requeue">>
    ELSE IF t.ack_always /\ t.ack_later THEN <<"ack">>
    ELSE <<>>

\* exec_task's except branch: the calls made on the message.
OnFailure(t) ==
    IF t.reject THEN <<IF t.reject_requeue THEN "reject_requeue" ELSE "reject_drop">>
    ELSE IF t.ack_always /\ t.ack_later THEN <<"ack">>
    ELSE <<>>

\* The pool starts the coroutine: it runs to message.ack() (suspends) when the
\* task is not ack_later, else into the callable.
ExecStart(m) ==
    /\ Alive
    /\ msgs[m].st = "spawned"
    /\ msgs' = [msgs EXCEPT ![m] =
          IF AckOnEntry(TaskOf(m))
          THEN [@ EXCEPT !.st = "acking", !.log = <<"ack">>]
          ELSE [@ EXCEPT !.st = "running", !.log = <<"call">>]]
    /\ UNCHANGED <<workerVars, workVars, consumerVars, pool_running, consuming_count>>
    /\ UNCHANGED auxVars

\* The early ack returned: the callable is invoked.
ExecAcked(m) ==
    /\ Alive
    /\ msgs[m].st = "acking"
    /\ msgs' = [msgs EXCEPT ![m] = [@ EXCEPT !.st = "running", !.log = Append(@, "call")]]
    /\ UNCHANGED <<workerVars, workVars, consumerVars, pool_running, consuming_count>>
    /\ UNCHANGED auxVars

\* The callable returned.
ExecSucceed(m) ==
    /\ Alive
    /\ msgs[m].st = "running"
    /\ msgs' = [msgs EXCEPT ![m] =
          [@ EXCEPT !.st = "succeeded",
                    !.log = IF AckOnSuccess(TaskOf(m)) THEN Append(@, "ack") ELSE @]]
    /\ UNCHANGED <<workerVars, workVars, consumerVars, pool_running, consuming_count>>
    /\ UNCHANGED auxVars

\* The callable raised an Exception: the except branch, then "raise e".
ExecRaise(m) ==
    /\ Alive
    /\ msgs[m].st = "running"
    /\ msgs' = [msgs EXCEPT ![m] =
          [@ EXCEPT !.st = "raised",
                    !.log = @ \o OnFailure(TaskOf(m)) \o <<"error">>]]
    /\ UNCHANGED <<workerVars, workVars, consumerVars, pool_running, consuming_count>>
    /\ UNCHANGED auxVars

\* The deadline cancels the coroutine at its await: CancelledError is not an
\* Exception, so "except Exception" does not run and nothing is called on the
\* message.
ExecTimeout(m) ==
    /\ Alive
    /\ PoolDeadline(m)
    /\ msgs' = [msgs EXCEPT ![m].st = "timedout"]
    /\ UNCHANGED <<workerVars, workVars, consumerVars, pool_running, consuming_count>>
    /\ UNCHANGED auxVars

-----------------------------------------------------------------------------
(* work(): heartbeat loop and graceful shutdown *)

\* Oxalis.wait_close (base): the test of "while self.consuming_count".
BaseWaitClose ==
    workPc' = IF consuming_count = 0 THEN "drain_start" ELSE "wait_consuming"

\* amqp wait_close: the head of "for tag, queue in self.consumer_tags.items()"
\* with pos items already yielded by an iterator made at size `size`.  A dict
\* that changed size makes the iterator raise RuntimeError, which ends work().
WaitCloseLoop(pos, size) ==
    IF Len(consumer_tags) # size
    THEN workPc' = "crashed" /\ iterPos' = 0 /\ iterSize' = 0
    ELSE IF pos < size
    THEN workPc' = "cancelling" /\ iterPos' = pos /\ iterSize' = size
    ELSE BaseWaitClose /\ iterPos' = 0 /\ iterSize' = 0

\* The test of "while self.running" in work(), and what follows it up to the
\* next suspension point.
HeartbeatLoop ==
    IF running
    THEN /\ heartbeatFile' = (heartbeatFile \/ health)
         /\ workPc' = "sleep"
         /\ UNCHANGED <<iterPos, iterSize>>
    ELSE /\ UNCHANGED heartbeatFile
         /\ WaitCloseLoop(0, Len(consumer_tags))

\* work() starts: the ready file is written.
WorkEntry ==
    /\ workPc = "entry"
    /\ readyFile' = TRUE
    /\ HeartbeatLoop
    /\ UNCHANGED <<workerVars, consumerVars, connected, pool_running, consuming_count, msgs>>
    /\ UNCHANGED auxVars

\* asyncio.sleep(timeout) of the heartbeat loop returns.
WorkWake ==
    /\ workPc = "sleep"
    /\ HeartbeatLoop
    /\ UNCHANGED <<workerVars, consumerVars, connected, readyFile, pool_running,
                   consuming_count, msgs>>
    /\ UNCHANGED auxVars

\* queue.cancel(tag) returns: the consumer is cancelled; next loop item.
WorkCancelled ==
    /\ workPc = "cancelling"
    /\ consumer' = [consumer EXCEPT ![consumer_tags[iterPos + 1]] = "cancelled"]
    /\ WaitCloseLoop(iterPos + 1, iterSize)
    /\ UNCHANGED <<workerVars, consumer_tags, connected, readyFile, heartbeatFile,
                   pool_running, consuming_count, msgs>>
    /\ UNCHANGED auxVars

\* asyncio.sleep(timeout) of base wait_close returns.
WorkWaitCloseWake ==
    /\ workPc = "wait_consuming"
    /\ BaseWaitClose
    /\ UNCHANGED <<workerVars, consumerVars, connected, iterPos, iterSize, readyFile,
                   heartbeatFile, pool_running, consuming_count, msgs>>
    /\ UNCHANGED auxVars

\* The task created for pools[0].wait_close() starts: no new spawns.
PoolWaitClose ==
    /\ workPc = "drain_start"
    /\ pool_running' = FALSE
    /\ workPc' = "draining"
    /\ UNCHANGED <<workerVars, consumerVars, connected, iterPos, iterSize, readyFile,
                   heartbeatFile, consuming_count, msgs>>
    /\ UNCHANGED auxVars

\* work() going on to disconnect without waiting for the pools.
PoolsDrainedNoWait == TRUE

\* asyncio.wait over every pool's wait_close: all of them have returned.
PoolsDrained == PoolWaitCloseDone

\* The pools are drained: disconnect() starts closing the channels.
WorkPoolsDrained ==
    /\ workPc = "draining"
    /\ PoolsDrained
    /\ workPc' = "disconnecting"
    /\ UNCHANGED <<workerVars, consumerVars, connected, iterPos, iterSize, readyFile,
                   heartbeatFile, pool_running, consuming_count, msgs>>
    /\ UNCHANGED auxVars

\* disconnect() returns; both files are removed; work() returns.
WorkDisconnected ==
    /\ workPc = "disconnecting"
    /\ connected' = FALSE
    /\ readyFile' = FALSE
    /\ heartbeatFile' = FALSE
    /\ workPc' = "returned"
    /\ UNCHANGED <<workerVars, consumerVars, iterPos, iterSize, pool_running,
                   consuming_count, msgs>>
    /\ UNCHANGED auxVars

Work ==
    \/ WorkEntry
    \/ WorkWake
    \/ WorkCancelled
    \/ WorkWaitCloseWake
    \/ PoolWaitClose
    \/ WorkPoolsDrained
    \/ WorkDisconnected

-----------------------------------------------------------------------------
(* Signals *)

\* close() forcing only from the third signal on.
ForceFromThird(count) == count >= 3

\* close(): force=self._on_close_signal_count >= 2.
Force(count) == count >= 2

\* close() acting in every process.
IgnoresNever == FALSE

\* close(): "if not self.is_worker: return".
Ignores == ~is_worker

\* The SIGINT/SIGTERM handler close(), with close_worker(force) inlined.
Close ==
    /\ Alive
    /\ Ignores => signals < MaxSignals
    /\ signals' = signals + 1
    /\ IF Ignores
       THEN UNCHANGED <<running, close_count, pool_running, msgs, workPc,
                        is_worker, health, consuming_count, connected, consumerVars,
                        iterPos, iterSize, readyFile, heartbeatFile>>
       ELSE /\ close_count' = close_count + 1
            /\ running' = FALSE
            /\ IF Force(close_count + 1)
               THEN /\ pool_running' = FALSE
                    /\ msgs' = PoolForceClose(msgs)
                    /\ workPc' = "exited"
               ELSE UNCHANGED <<pool_running, msgs, workPc>>
            /\ UNCHANGED <<is_worker, health, consuming_count, connected, consumerVars,
                           iterPos, iterSize, readyFile, heartbeatFile>>
    /\ UNCHANGED auxVars

-----------------------------------------------------------------------------

Next ==
    \/ \E q \in Queues : ReceiveMessage(q)
    \/ \E m \in Msgs, c \in Contents : OnMessage(m, c)
    \/ \E m \in Msgs : OnMessageRejected(m)
    \/ \E m \in Msgs : ExecStart(m)
    \/ \E m \in Msgs : ExecAcked(m)
    \/ \E m \in Msgs : ExecSucceed(m)
    \/ \E m \in Msgs : ExecRaise(m)
    \/ \E m \in Msgs : ExecTimeout(m)
    \/ Work
    \/ Close

Spec == Init /\ [][Next]_vars

\* Fairness: the event loop resumes every coroutine whose await has returned;
\* every transport call returns and every execution finishes or reaches its
\* deadline.  Deliveries and signals are the environment's and are not forced.
LiveSpec ==
    /\ Init /\ [][Next]_vars
    /\ WF_vars(Work)
    /\ \A q \in Queues : WF_vars(ReceiveMessage(q))
    /\ \A m \in Msgs :
        WF_vars(OnMessageRejected(m) \/ ExecStart(m) \/ ExecAcked(m)
                    \/ ExecSucceed(m) \/ ExecRaise(m) \/ ExecTimeout(m))

-----------------------------------------------------------------------------
(* The log-broker driver (kafka.py): registration *)

KNames == {"k1", "k2"}

default_topic == "default_topic"

\* The topic= argument of register(): "" is the default of the parameter.
TopicArgs == {"", "t1"}

\* Oxalis.pools: the runtime's own pool.
pools == <<"P1">>

\* The pool= argument of register(): None, or a pool of the application.
PoolArgs == {"None", "P2"}

\* kafka.Task.__init__ over base Task.__init__: pool or oxalis.pools[0].
KTask(name, topic, pool) ==
    [name |-> name, topic |-> topic,
     pool |-> IF pool = "None" THEN pools[1] ELSE pool]

\* The keys of a registry.
Names(reg) == {reg[i].name : i \in DOMAIN reg}

\* register_task storing the task whatever the registry holds: a dict
\* assignment replaces the value of a key that is present.
register_task_overwrite(reg, task) ==
    [err |-> FALSE,
     tasks |-> IF task.name \in Names(reg)
               THEN [i \in DOMAIN reg |->
                        IF reg[i].name = task.name THEN task ELSE reg[i]]
               ELSE Append(reg, task)]

\* Oxalis.register_task: err is TRUE where it raises ValueError("double task").
register_task(reg, task) ==
    IF task.name \in Names(reg)
    THEN [err |-> TRUE, tasks |-> reg]
    ELSE [err |-> FALSE, tasks |-> Append(reg, task)]

\* kafka register(...)(func) on the log-broker runtime of the process (the
\* one whose topic set holds the default topic), before run_worker: the task
\* is built, register_task stores it, then its topic joins the topic set.
KRegister(name, topicArg, poolArg) ==
    /\ workPc = "setup"
    /\ ktopics # {}
    /\ LET topic == IF topicArg = "" THEN default_topic ELSE topicArg
           r == register_task(ktasks, KTask(name, topic, poolArg))
       IN /\ ktasks' = r.tasks
          /\ ktopics' = IF r.err THEN ktopics ELSE ktopics \cup {topic}
          /\ error' = IF r.err THEN "double task" ELSE "none"
    /\ UNCHANGED <<workerVars, workVars, consumerVars, pool_running, consuming_count,
                   msgs, activities, msg_queue, appVars>>

-----------------------------------------------------------------------------
(* The AMQP driver: registration *)

ANames == {"a1", "a2"}

default_exchange == "default_exchange"

\* The exchange= argument of register(): None, or an exchange of the
\* application.
ExchangeArgs == {"None", "X"}

\* The task object amqp.Task.__init__ builds.
ATask(name, flags, exchange) == [name |-> name, flags |-> flags, exchange |-> exchange]

\* amqp register(...)(func) on the AMQP runtime of the process (the one
\* whose exchange list holds the default exchange): the task is built
\* (ValueError on a policy conflict), register_task stores it, then its
\* exchange is appended to the exchange list.
ARegister(name, flags, exchangeArg) ==
    /\ workPc = "setup"
    /\ exchanges # <<>>
    /\ LET exchange == IF exchangeArg = "None" THEN default_exchange ELSE exchangeArg
           r == register_task(registry, ATask(name, flags, exchange))
       IN IF ~TaskInit(flags)
          THEN /\ error' = "policy conflict"
               /\ UNCHANGED <<registry, exchanges>>
          ELSE /\ registry' = r.tasks
               /\ exchanges' = IF r.err THEN exchanges ELSE Append(exchanges, exchange)
               /\ error' = IF r.err THEN "double task" ELSE "none"
    /\ UNCHANGED <<workerVars, workVars, consumerVars, pool_running, consuming_count,
                   msgs, kafkaVars, msg_queue, producerVars>>

-----------------------------------------------------------------------------
(* The producer side: config() and delay() on the task named "a1" *)

\* The arguments of config(): a priority or None, and headers or none.
PriorityArgs == {"None", "9"}
HeaderArgs == {{}, {"x"}}

\* amqp Task.config: sets priority and headers on the task object.
Config(p, h) ==
    /\ workPc = "setup"
    /\ exchanges # <<>>
    /\ priority' = p
    /\ headers' = h
    /\ UNCHANGED <<workerVars, workVars, consumerVars, pool_running, consuming_count,
                   msgs, kafkaVars, msg_queue, error, registry, exchanges, test,
                   published, calls, delays>>

\* task.config(p, **h).delay() is evaluated: config() sets priority and
\* headers on the task object and returns it, delay() makes the coroutine.
\* Its body runs when the coroutine is awaited or, wrapped in an asyncio task
\* (create_task, gather), when the event loop first runs it.
ConfigDelay(i, p, h) ==
    /\ workPc = "setup"
    /\ exchanges # <<>>
    /\ delays[i].pc = "idle"
    /\ \A k \in Delays : k < i => delays[k].pc # "idle"
    /\ priority' = p
    /\ headers' = h
    /\ delays' = [delays EXCEPT ![i].pc = "created",
                     ![i].cfg = [given |-> TRUE, priority |-> p, headers |-> h]]
    /\ UNCHANGED <<workerVars, workVars, consumerVars, pool_running, consuming_count,
                   msgs, kafkaVars, msg_queue, error, registry, exchanges, test,
                   published, calls>>

\* amqp Task.clean_config.
clean_config == priority' = "None" /\ headers' = {}

\* delay() that publishes whatever the runtime's test flag is.
InlineNever == FALSE

\* Task.delay line 58: the callable is run inline iff the runtime has test set.
Inline == test

\* The body of delay() starts (a delay() awaited without config(), or the
\* coroutine of a config().delay()) and runs to its first suspension point.
\* With test set the callable is invoked; otherwise send_task looks the
\* task's name up (ValueError when it is not registered), builds the message
\* from the task's headers and priority, and awaits exchange.publish.
Delay(i) ==
    /\ workPc = "setup"
    /\ exchanges # <<>>
    /\ delays[i].pc \in {"idle", "created"}
    /\ \A k \in Delays : k < i => delays[k].pc # "idle"
    /\ IF Inline
       THEN /\ calls' = calls + 1
            /\ delays' = [delays EXCEPT ![i].pc = "calling"]
       ELSE /\ UNCHANGED calls
            /\ delays' = [delays EXCEPT ![i] =
                  IF "a1" \notin Names(registry)
                  THEN [@ EXCEPT !.pc = "raised", !.err = "not register"]
                  ELSE [@ EXCEPT !.pc = "publishing",
                                 !.msg = [priority |-> priority, headers |-> headers]]]
    /\ UNCHANGED <<workerVars, workVars, consumerVars, pool_running, consuming_count,
                   msgs, kafkaVars, msg_queue, error, registry, exchanges, test,
                   priority, headers, published>>

\* The inline callable returned: clean_config() runs and delay() returns.
DelayCalled(i) ==
    /\ delays[i].pc = "calling"
    /\ delays' = [delays EXCEPT ![i].pc = "returned"]
    /\ clean_config
    /\ UNCHANGED <<workerVars, workVars, consumerVars, pool_running, consuming_count,
                   msgs, kafkaVars, msg_queue, error, registry, exchanges, test,
                   published, calls>>

\* exchange.publish returned: the message is sent, clean_config() runs and
\* delay() returns.
DelayPublished(i) ==
    /\ delays[i].pc = "publishing"
    /\ published' = Append(published, delays[i].msg)
    /\ delays' = [delays EXCEPT ![i].pc = "returned"]
    /\ clean_config
    /\ UNCHANGED <<workerVars, workVars, consumerVars, pool_running, consuming_count,
                   msgs, kafkaVars, msg_queue, error, registry, exchanges, test,
                   calls>>

\* The inline callable or exchange.publish raised: the error leaves delay()
\* at the await, before clean_config().
DelayRaised(i) ==
    /\ delays[i].pc \in {"calling", "publishing"}
    /\ delays' = [delays EXCEPT ![i].pc = "raised",
                     ![i].err = IF delays[i].pc = "calling" THEN "callable" ELSE "publish"]
    /\ UNCHANGED <<workerVars, workVars, consumerVars, pool_running, consuming_count,
                   msgs, kafkaVars, msg_queue, error, registry, exchanges, test,
                   priority, headers, published, calls>>

\* The policy register() gives a task by default.
DefaultFlags == [ack_later |-> TRUE, ack_always |-> FALSE,
                 reject |-> TRUE, reject_requeue |-> FALSE]

\* An application process: its task "a1" gets registered, and config() and
\* delay() are called on it.
ProducerNext ==
    \/ ARegister("a1", DefaultFlags, "None")
    \/ \E p \in PriorityArgs, h \in HeaderArgs : Config(p, h)
    \/ \E i \in Delays : Delay(i)
    \/ \E i \in Delays : DelayCalled(i)
    \/ \E i \in Delays : DelayPublished(i)
    \/ \E i \in Delays : DelayRaised(i)

\* Setup: tasks are registered on the runtime of the process.
SetupNext ==
    \/ \E n \in ANames, f \in Flags, x \in ExchangeArgs : ARegister(n, f, x)
    \/ \E n \in KNames, t \in TopicArgs, p \in PoolArgs : KRegister(n, t, p)

-----------------------------------------------------------------------------
(* The log-broker driver: run_worker and the consumer activities *)

\* Where the group of pool p stands in the defaultdict, 0 if it has no key.
GroupIndex(groups, p) ==
    IF \E i \in DOMAIN groups : groups[i].pool = p
    THEN CHOOSE i \in DOMAIN groups : groups[i].pool = p
    ELSE 0

\* _run_worker putting every task's topic into one list.
GroupTopicsTogether(reg, groups) ==
    IF reg = <<>> THEN groups
    ELSE <<[pool |-> reg[1].pool, topics |-> [i \in DOMAIN reg |-> reg[i].topic]]>>

RECURSIVE GroupTopics(_, _)
\* _run_worker's first loop: topics[id(task.pool)].append(task.topic) over
\* tasks.values(); groups is the defaultdict in key insertion order.
GroupTopics(reg, groups) ==
    IF reg = <<>> THEN groups
    ELSE LET t == Head(reg)
             i == GroupIndex(groups, t.pool)
         IN GroupTopics(Tail(reg),
                IF i = 0
                THEN Append(groups, [pool |-> t.pool, topics |-> <<t.topic>>])
                ELSE [groups EXCEPT ![i].topics = Append(@, t.topic)])

\* An activity made by ensure_future(_start_consumer(ts)): pool is the dict key
\* its topic list was stored under, outcome how the handling of its polled
\* record went, logged whether on_message_receive logged an exception, commits
\* the consumer.commit() calls made, pc its suspension point or how it ended.
Activity(g) ==
    [pool |-> g.pool, topics |-> g.topics, pc |-> "created", outcome |-> "none",
     logged |-> FALSE, commits |-> 0]

\* run_worker up to run_until_complete(work()): running and is_worker are
\* set, connect() starts the producer, _run_worker schedules one activity per
\* group.
KRunWorker ==
    /\ workPc = "setup"
    /\ running' = TRUE
    /\ is_worker' = TRUE
    /\ connected' = TRUE
    /\ activities' = LET groups == GroupTopics(ktasks, <<>>)
                     IN [i \in DOMAIN groups |-> Activity(groups[i])]
    /\ workPc' = "entry"
    /\ UNCHANGED <<close_count, health, signals, iterPos, iterSize, readyFile,
                   heartbeatFile, consumerVars, pool_running, consuming_count, msgs,
                   ktasks, ktopics, error, msg_queue, appVars>>

Activities == DOMAIN activities

\* The test of "while self.running" in _start_consumer.
ConsumerLoop == IF running THEN "polling" ELSE "stopping"

\* _start_consumer is first run: consuming_count goes up and consumer.start()
\* is awaited.  The event loop runs what was scheduled in order: the
\* activities, then work().
KStart(a) ==
    /\ Alive
    /\ workPc = "entry"
    /\ activities[a].pc = "created"
    /\ \A b \in Activities : b < a => activities[b].pc # "created"
    /\ consuming_count' = consuming_count + 1
    /\ activities' = [activities EXCEPT ![a].pc = "starting"]
    /\ UNCHANGED <<workerVars, workVars, consumerVars, pool_running, msgs,
                   ktasks, ktopics, error, msg_queue, appVars>>

\* consumer.start() returned: the loop is entered.
KStarted(a) ==
    /\ Alive
    /\ workPc # "entry"
    /\ activities[a].pc = "starting"
    /\ activities' = [activities EXCEPT ![a].pc = ConsumerLoop]
    /\ UNCHANGED <<workerVars, workVars, consumerVars, pool_running, consuming_count,
                   msgs, ktasks, ktopics, error, msg_queue, appVars>>

\* wait_for(consumer.getone()) timed out; the TimeoutError is suppressed.
KPollTimeout(a) ==
    /\ Alive
    /\ activities[a].pc = "polling"
    /\ activities' = [activities EXCEPT ![a].pc = ConsumerLoop]
    /\ UNCHANGED <<workerVars, workVars, consumerVars, pool_running, consuming_count,
                   msgs, ktasks, ktopics, error, msg_queue, appVars>>

\* What a topic can hold: garbage and the encoding of a task name, registered
\* or not.
KContents == {Garbage} \cup {encode(n) : n \in KNames}

\* _start_consumer without its finally: the error leaves consuming_count up.
KUnpackNoFinally(a, outcome, logged) ==
    /\ activities' = [activities EXCEPT ![a].pc = "failed", ![a].outcome = outcome,
                                        ![a].logged = logged]
    /\ UNCHANGED consuming_count

\* on_message_receive returns what load_and_execute_task returned, or nothing
\* after logging: None either way, and "_, spowned = None" raises TypeError.
\* It leaves the loop and the try; the finally lowers consuming_count.
KUnpack(a, outcome, logged) ==
    /\ activities' = [activities EXCEPT ![a].pc = "failed", ![a].outcome = outcome,
                                        ![a].logged = logged]
    /\ consuming_count' = consuming_count - 1

\* getone() returned a record: load_and_execute_task loads the task and
\* awaits the callable under wait_for, or load_task raises.
KPoll(a, c) ==
    /\ Alive
    /\ activities[a].pc = "polling"
    /\ IF load_from(Names(ktasks), c).err
       THEN KUnpack(a, "load_failed", TRUE)
       ELSE /\ activities' = [activities EXCEPT ![a].pc = "executing"]
            /\ UNCHANGED consuming_count
    /\ UNCHANGED <<workerVars, workVars, consumerVars, pool_running, msgs,
                   ktasks, ktopics, error, msg_queue, appVars>>

\* The callable returned, raised, or wait_for cancelled it at its timeout and
\* raised TimeoutError; the two errors are logged by on_message_receive.
KExecuted(a, outcome) ==
    /\ Alive
    /\ activities[a].pc = "executing"
    /\ KUnpack(a, outcome, outcome # "returned")
    /\ UNCHANGED <<workerVars, workVars, consumerVars, pool_running, msgs,
                   ktasks, ktopics, error, msg_queue, appVars>>

\* consumer.stop() returned: the activity ends through the finally.
KStopped(a) ==
    /\ Alive
    /\ activities[a].pc = "stopping"
    /\ activities' = [activities EXCEPT ![a].pc = "stopped"]
    /\ consuming_count' = consuming_count - 1
    /\ UNCHANGED <<workerVars, workVars, consumerVars, pool_running, msgs,
                   ktasks, ktopics, error, msg_queue, appVars>>

\* work() is first run after the activities scheduled before it.
KWork ==
    /\ \A a \in Activities : activities[a].pc # "created"
    /\ Work

\* A process that has constructed a runtime and not called run_worker: not a
\* worker, not connected, nothing registered; topics and exchs are the topic
\* set and the exchange list its constructor made.
ProcessInit(topics, exchs, tests) ==
    /\ running = FALSE
    /\ is_worker = FALSE
    /\ close_count = 0
    /\ consuming_count = 0
    /\ health = TRUE
    /\ pool_running = TRUE
    /\ connected = FALSE
    /\ consumer = [q \in Queues |-> "cancelled"]
    /\ consumer_tags = <<>>
    /\ workPc = "setup"
    /\ iterPos = 0
    /\ iterSize = 0
    /\ readyFile = FALSE
    /\ heartbeatFile = FALSE
    /\ msgs = [m \in Msgs |-> Undelivered]
    /\ signals = 0
    /\ ktasks = <<>>
    /\ ktopics = topics
    /\ activities = <<>>
    /\ error = "none"
    /\ msg_queue = [m \in Msgs |-> 0]
    /\ registry = <<>>
    /\ exchanges = exchs
    /\ ProducerInit(tests)

\* kafka Oxalis.__init__: the topic set holds the default topic.
KInit == ProcessInit({default_topic}, <<>>, {FALSE})

\* amqp Oxalis.__init__: the exchange list holds the default exchange.
AInit == ProcessInit({}, <<default_exchange>>, {FALSE})

\* amqp Oxalis.__init__ with test=False or test=True.
ProducerProcessInit == ProcessInit({}, <<default_exchange>>, BOOLEAN)

KNext ==
    \/ \E n \in KNames, t \in TopicArgs, p \in PoolArgs : KRegister(n, t, p)
    \/ KRunWorker
    \/ \E a \in Activities : KStart(a)
    \/ \E a \in Activities : KStarted(a)
    \/ \E a \in Activities : KPollTimeout(a)
    \/ \E a \in Activities, c \in KContents : KPoll(a, c)
    \/ \E a \in Activities, o \in {"returned", "raised", "timeout"} : KExecuted(a, o)
    \/ \E a \in Activities : KStopped(a)
    \/ KWork
    \/ Close

KafkaSpec == KInit /\ [][KNext]_vars

ProducerSpec == ProducerProcessInit /\ [][ProducerNext]_vars

\* A producer whose coroutines each evaluate task.config(...).delay(...) on
\* the one task object, in one event loop.
InvocationNext ==
    \/ ARegister("a1", DefaultFlags, "None")
    \/ \E i \in Delays, p \in PriorityArgs, h \in HeaderArgs : ConfigDelay(i, p, h)
    \/ \E i \in Delays : Delay(i)
    \/ \E i \in Delays : DelayCalled(i)
    \/ \E i \in Delays : DelayPublished(i)
    \/ \E i \in Delays : DelayRaised(i)

InvocationSpec == ProducerProcessInit /\ [][InvocationNext]_vars

\* The steps of a worker process of either driver: the consumers, deliveries
\* and executions of an AMQP worker, and what a log-broker process does;
\* work() and close() are the same code in both (KWork is Work where there is
\* no consumer activity).
WorkerNext ==
    \/ \E q \in Queues : ReceiveMessage(q)
    \/ \E m \in Msgs, c \in Contents : OnMessage(m, c)
    \/ \E m \in Msgs : OnMessageRejected(m)
    \/ \E m \in Msgs : ExecStart(m)
    \/ \E m \in Msgs : ExecAcked(m)
    \/ \E m \in Msgs : ExecSucceed(m)
    \/ \E m \in Msgs : ExecRaise(m)
    \/ \E m \in Msgs : ExecTimeout(m)
    \/ KNext

\* A worker process of either driver: an AMQP worker about to run work(), or
\* a log-broker process from its setup on.
WorkerSpec == (Init \/ KInit) /\ [][WorkerNext]_vars

\* Setup of a process of either driver.
SetupSpec == (AInit \/ KInit) /\ [][SetupNext]_vars

-----------------------------------------------------------------------------
(* Properties *)

IsDisposition(e) == e \in {"ack", "reject_requeue", "reject_drop"}

\* The terminal dispositions issued on delivery m, in order.
Dispositions(m) == SelectSeq(msgs[m].log, IsDisposition)

IsCall(e) == e = "call"

\* The invocations of the callable for delivery m.
Calls(m) == SelectSeq(msgs[m].log, IsCall)

\* Delivery m was handed to the pool.
Accepted(m) == msgs[m].st \in {"spawned", "acking", "running", "succeeded",
                                "raised", "timedout", "aborted"}

\* The handling of delivery m has ended (other than by the process dying).
Finished(m) == msgs[m].st \in {"dispatch_failed", "succeeded", "raised", "timedout"}

\* The execution for delivery m failed: the callable raised or was cancelled at
\* its deadline.
ExecutionFailed(m) == msgs[m].st \in {"raised", "timedout"}

\* C1: every delivered message gets at most one terminal disposition (ack,
\* reject with requeue, reject without requeue), and a message whose handling
\* has ended has none exactly when its task has ack_later=true, reject=false,
\* ack_always=false and its execution failed.
C1_AtMostOneDisposition ==
    \A m \in Msgs :
        /\ Len(Dispositions(m)) <= 1
        /\ Finished(m) =>
            (Dispositions(m) = <<>>
                <=> /\ ExecutionFailed(m)
                    /\ TaskOf(m).ack_later
                    /\ ~TaskOf(m).reject
                    /\ ~TaskOf(m).ack_always)

\* The row of the acknowledgement table for a failed execution of an
\* ack_later task.
FailureRow(t) ==
    IF t.reject
    THEN IF t.reject_requeue THEN <<"reject_requeue">> ELSE <<"reject_drop">>
    ELSE IF t.ack_always THEN <<"ack">> ELSE <<>>

\* C2: for a task with ack_later=true nothing is issued on the message while
\* the callable has not completed; after success the one action is ack; after
\* the callable raised the action is reject with requeue=reject_requeue if
\* reject, ack if ack_always, nothing otherwise, and the error leaves exec_task.
C2_AckLaterTable ==
    \A m \in Msgs :
        (Accepted(m) /\ TaskOf(m).ack_later) =>
            /\ msgs[m].st \in {"spawned", "running"} => Dispositions(m) = <<>>
            /\ msgs[m].st = "succeeded" => msgs[m].log = <<"call", "ack">>
            /\ msgs[m].st = "raised" =>
                  msgs[m].log = <<"call">> \o FailureRow(TaskOf(m)) \o <<"error">>

\* C2 happens: scenario C of the specification, a reject_requeue task whose
\* callable raised.
C2_Witness ==
    \E m \in Msgs :
        /\ msgs[m].st = "raised"
        /\ TaskOf(m).ack_later /\ TaskOf(m).reject /\ TaskOf(m).reject_requeue

\* C3: for a task with ack_later=false the ack is issued before the callable
\* starts, the callable is invoked exactly once, and nothing else is issued on
\* the message whether the callable returns or raises.
C3_AckEarly ==
    \A m \in Msgs :
        (Accepted(m) /\ ~TaskOf(m).ack_later) =>
            /\ msgs[m].st = "running" => msgs[m].log = <<"ack", "call">>
            /\ msgs[m].st = "succeeded" => msgs[m].log = <<"ack", "call">>
            /\ msgs[m].st = "raised" => msgs[m].log = <<"ack", "call", "error">>
            /\ Len(Calls(m)) <= 1
            /\ Dispositions(m) \in {<<>>, <<"ack">>}

\* C3 happens: an ack_later=false task whose callable raised.
C3_Witness ==
    \E m \in Msgs : msgs[m].st = "raised" /\ ~TaskOf(m).ack_later

\* C4: a delivery whose payload cannot be decoded, has the wrong shape or
\* names an unknown task, or that arrives when the pool is not running, is
\* never handed to the pool; exactly one reject with requeue is issued on it,
\* no ack, and the callable is not invoked.
C4_DispatchFailure ==
    /\ [](\A m \in Msgs :
            /\ (msgs[m].st # "undelivered" /\ load_task(msgs[m].content).err)
                    => msgs[m].st \in {"rejecting", "dispatch_failed"}
            /\ msgs[m].st \in {"rejecting", "dispatch_failed"}
                    => msgs[m].log = <<"reject_requeue">>)
    /\ [][\A m \in Msgs :
            (msgs[m].st = "undelivered" /\ msgs'[m].st # "undelivered" /\ ~pool_running)
                => msgs'[m].st = "rejecting"]_vars

\* C4 happens: a well-formed message for a registered task was rejected
\* because the pool was closed.
C4_Witness ==
    \E m \in Msgs :
        /\ msgs[m].st = "dispatch_failed"
        /\ ~load_task(msgs[m].content).err

\* C5: a message whose execution was cancelled at its deadline has the
\* disposition it would have had if the callable had raised.
C5_TimeoutAsFailure ==
    \A m \in Msgs :
        msgs[m].st = "timedout" =>
            Dispositions(m) =
                IF TaskOf(m).ack_later THEN FailureRow(TaskOf(m)) ELSE <<"ack">>

\* C6: when graceful shutdown returns, consuming_count is 0 and the pool
\* holds no in-flight execution.
C6_QuiescentAtReturn ==
    workPc = "returned" => (consuming_count = 0 /\ PoolInFlight = {})

\* No consumer is consuming and no dispatch is in flight.
IntakeStopped == \A q \in Queues : consumer[q] # "consuming"

\* C7: the shutdown steps happen in order: once work() is past cancelling the
\* consumer tags no consumer is consuming; the pools are drained only after
\* that; disconnect starts only with the pool closed and empty, and never
\* while a consumer is consuming or a dispatch is in flight; the files are
\* deleted only once the transport is closed.
C7_ShutdownOrder ==
    /\ workPc \in {"wait_consuming", "drain_start", "draining", "disconnecting",
                   "returned"} => IntakeStopped
    /\ workPc \in {"disconnecting", "returned"} =>
            /\ ~pool_running /\ PoolInFlight = {}
            /\ consuming_count = 0
    /\ (workPc \notin {"entry", "exited", "crashed"} /\ ~readyFile) => ~connected
    /\ ~connected => workPc = "returned"

\* C8: without a force close no execution is cancelled by shutdown, and when
\* disconnect starts (and when work() returns) every delivery accepted for
\* execution before the close has run its callable to completion or to its
\* deadline.
C8_GracefulCloseDrains ==
    \A m \in Msgs :
        /\ (msgs[m].st = "aborted") => close_count >= 2
        /\ (Accepted(m) /\ msgs[m].before_close
                /\ workPc \in {"disconnecting", "returned"})
              => msgs[m].st \in {"succeeded", "raised", "timedout"}

\* C8 happens: work() returned after one close signal and a delivery accepted
\* before the signal has finished.
C8_Witness ==
    /\ workPc = "returned" /\ close_count = 1
    /\ \E m \in Msgs : msgs[m].before_close /\ msgs[m].st = "succeeded"

\* C9: after one close signal the worker eventually drains, disconnects,
\* removes both files and returns from work() (unless a second signal comes).
C9_GracefulCloseTerminates ==
    (close_count = 1) ~>
        \/ close_count >= 2
        \/ workPc = "returned" /\ ~connected /\ ~readyFile /\ ~heartbeatFile

\* C10: the first close signal sets running=false and neither cancels an
\* execution nor ends the process; from the second signal on the pool is
\* force-closed (not running, nothing in flight) and the process has exited.
C10_CloseSignals ==
    /\ close_count = 0 => workPc # "exited"
    /\ close_count = 1 =>
            /\ ~running /\ workPc # "exited"
            /\ \A m \in Msgs : msgs[m].st # "aborted"
    /\ close_count >= 2 =>
            /\ ~running /\ workPc = "exited"
            /\ ~pool_running /\ PoolInFlight = {}

\* C10 happens: the second signal cancelled an execution that had been
\* accepted before the first one, and ended the process.
C10_Witness ==
    /\ close_count = 2 /\ workPc = "exited"
    /\ \E m \in Msgs : msgs[m].st = "aborted" /\ msgs[m].before_close

\* C20: the ready file is written once, by the step that enters the
\* heartbeat loop; the heartbeat file is written on a loop iteration only if
\* running and health are true at that iteration; and once the worker has
\* shut down, by graceful close (work() has ended) or by force close (the
\* process exited), neither file exists.
C20_LivenessFiles ==
    /\ [][(~readyFile /\ readyFile') => (workPc = "entry" /\ workPc' # "entry")]_vars
    /\ [][(~heartbeatFile /\ heartbeatFile') => (running /\ health)]_vars
    /\ [](~Alive => (~readyFile /\ ~heartbeatFile))

\* The queues whose consumer was started: their tags are stored.
Started == {consumer_tags[i] : i \in DOMAIN consumer_tags}

\* C22: every unique queue gets at most one consumer (one stored tag, stored
\* exactly when its consumer has been started), and once graceful shutdown
\* has reached disconnect every consumer the worker started has been
\* cancelled, whenever the close signal arrived.
C22_EveryConsumerCancelled ==
    /\ \A i, j \in DOMAIN consumer_tags : consumer_tags[i] = consumer_tags[j] => i = j
    /\ \A q \in Queues : q \in Started <=> consumer[q] # "pending"
    /\ workPc \in {"disconnecting", "returned"} =>
            \A q \in Started : consumer[q] = "cancelled"

-----------------------------------------------------------------------------
(* Deliveries under the prefetch limit of a queue's consumer *)

QMsgs == 1..MaxDeliveries

\* The deliveries to the consumer of queue q that the worker has neither
\* acked nor rejected.
Unacked(q) ==
    {m \in DOMAIN msgs : /\ msg_queue[m] = q
                         /\ msgs[m].st # "undelivered"
                         /\ Dispositions(m) = <<>>}

\* channel.set_qos(prefetch_count=queue.consumer_prefetch_count): the broker
\* delivers to the consumer only while fewer deliveries are unacknowledged.
QosAllows(q) == Cardinality(Unacked(q)) < PrefetchCount

\* A delivery to the consumer of queue q.
QosOnMessage(q, m, c) ==
    /\ Alive /\ connected
    /\ consumer[q] = "consuming"
    /\ QosAllows(q)
    /\ msgs[m].st = "undelivered"
    /\ \A k \in QMsgs : k < m => msgs[k].st # "undelivered"
    /\ Dispatch(m, c)
    /\ msg_queue' = [msg_queue EXCEPT ![m] = q]
    /\ UNCHANGED <<workerVars, workVars, consumerVars, pool_running, kafkaVars, error, appVars>>

\* An AMQP worker in its heartbeat loop: work() has written the ready file
\* and sleeps, the consumers are not registered yet, nothing is delivered.
QosInit ==
    /\ running = TRUE
    /\ is_worker = TRUE
    /\ close_count = 0
    /\ consuming_count = 0
    /\ health = TRUE
    /\ pool_running = TRUE
    /\ connected = TRUE
    /\ consumer = [q \in Queues |-> "pending"]
    /\ consumer_tags = <<>>
    /\ workPc = "sleep"
    /\ iterPos = 0
    /\ iterSize = 0
    /\ readyFile = TRUE
    /\ heartbeatFile = TRUE
    /\ msgs = [m \in QMsgs |-> Undelivered]
    /\ signals = 0
    /\ ktasks = <<>>
    /\ ktopics = {}
    /\ activities = <<>>
    /\ error = "none"
    /\ msg_queue = [m \in QMsgs |-> 0]
    /\ registry = <<>>
    /\ exchanges = <<>>
    /\ ProducerInit({FALSE})

QosNext ==
    \/ \E q \in Queues : ReceiveMessage(q)
    \/ \E q \in Queues, m \in QMsgs, c \in Contents : QosOnMessage(q, m, c)
    \/ \E m \in QMsgs : OnMessageRejected(m)
    \/ \E m \in QMsgs : ExecStart(m)
    \/ \E m \in QMsgs : ExecAcked(m)
    \/ \E m \in QMsgs : ExecSucceed(m)
    \/ \E m \in QMsgs : ExecRaise(m)
    \/ \E m \in QMsgs : ExecTimeout(m)

QosSpec == QosInit /\ [][QosNext]_vars

\* The executions of deliveries from queue q whose callable is running.
RunningFrom(q) == {m \in DOMAIN msgs : msg_queue[m] = q /\ msgs[m].st = "running"}

\* C13: the number of task executions from one queue running at the same time
\* never exceeds the queue's consumer_prefetch_count, whatever the policies
\* of the tasks.
C13_PrefetchBoundsConcurrency ==
    \A q \in Queues : Cardinality(RunningFrom(q)) <= PrefetchCount

-----------------------------------------------------------------------------
(* Properties of registration *)

\* A policy combination that amqp.Task refuses.
InvalidPolicy(f) ==
    \/ f.ack_always /\ f.reject
    \/ f.reject /\ ~f.ack_later
    \/ f.ack_always /\ ~f.ack_later
    \/ f.reject_requeue /\ ~f.reject

\* C14: registering an AMQP task with an invalid policy combination fails
\* with an error and leaves the registry and the exchange list unchanged;
\* every task in the registry satisfies ack_always => (ack_later and not
\* reject), reject => ack_later, reject_requeue => reject.
C14_InvalidPolicyRejected ==
    /\ [][\A n \in ANames, f \in Flags, x \in ExchangeArgs :
            (ARegister(n, f, x) /\ InvalidPolicy(f)) =>
                (error' # "none" /\ UNCHANGED <<registry, exchanges>>)]_vars
    /\ [](\A i \in DOMAIN registry :
            LET f == registry[i].flags IN
            /\ f.ack_always => (f.ack_later /\ ~f.reject)
            /\ f.reject => f.ack_later
            /\ f.reject_requeue => f.reject)

\* A registration with an invalid policy was refused after a valid one had
\* been stored.
C14_Witness ==
    /\ error = "policy conflict"
    /\ Len(registry) = 1
    /\ Len(exchanges) = 2

\* Every name of a registry is bound to one task.
UniqueNames(reg) == \A i, j \in DOMAIN reg : reg[i].name = reg[j].name => i = j

\* C15: registering a task whose name is already in the registry raises an
\* error and leaves the registry (the first task stays bound to the name) and
\* the driver's topology (AMQP exchange list, log-broker topic set) unchanged;
\* each name maps to exactly one task.
C15_DuplicateNameRejected ==
    /\ [][/\ \A n \in ANames, f \in Flags, x \in ExchangeArgs :
              (ARegister(n, f, x) /\ n \in Names(registry)) =>
                  (error' # "none" /\ UNCHANGED <<registry, exchanges>>)
          /\ \A n \in KNames, t \in TopicArgs, p \in PoolArgs :
              (KRegister(n, t, p) /\ n \in Names(ktasks)) =>
                  (error' # "none" /\ UNCHANGED <<ktasks, ktopics>>)]_vars
    /\ [](UniqueNames(registry) /\ UniqueNames(ktasks))

\* A duplicate registration was just refused: on an AMQP runtime holding two
\* tasks, or on a log-broker runtime holding a task on a topic of its own.
C15_Witness ==
    /\ error = "double task"
    /\ \/ Len(registry) = 2 /\ Len(exchanges) = 3
       \/ Len(ktasks) = 1 /\ ktopics = {default_topic, "t1"}

-----------------------------------------------------------------------------
(* Properties of the producer side *)

\* The delay() calls whose body has started.
Called == {i \in Delays : delays[i].pc \notin {"idle", "created"}}

\* The delay() calls that have ended, by returning or with an error.
Ended(ds) == {i \in Delays : ds[i].pc \in {"returned", "raised"}}

\* C16: with test=true every delay() call invokes the callable exactly once,
\* inline and before it returns, never enters send_task or publishes, and
\* its steps leave the registry and the topology lists unchanged.
C16_TestModeInline ==
    /\ [](test =>
            /\ calls = Cardinality(Called)
            /\ published = <<>>
            /\ \A i \in Delays : /\ delays[i].pc # "publishing"
                                 /\ delays[i].err \in {"none", "callable"})
    /\ [][(test /\ delays' # delays) =>
            UNCHANGED <<registry, exchanges, ktopics>>]_vars

\* In test mode two delay() calls have returned, each after one inline
\* invocation, on a registered task.
C16_Witness ==
    /\ test
    /\ registry # <<>>
    /\ \A i \in Delays : delays[i].pc = "returned"
    /\ calls = MaxDelays

\* C17: whenever a delay() call ends, by returning or with an error from the
\* callable or from publishing, the task's priority is None and its headers
\* are empty.
C17_ConfigClearedAfterDelay ==
    [][Ended(delays') # Ended(delays) => (priority' = "None" /\ headers' = {})]_vars

-----------------------------------------------------------------------------
(* Properties of the close handler outside a worker *)

\* C19: a close signal handled in a process that is not a worker changes
\* nothing: running, the close-signal counter and the pool stay as they were
\* and the process does not exit, however many signals arrive.
C19_CloseIgnoredOutsideWorker ==
    [][(signals' # signals /\ ~is_worker) =>
            /\ UNCHANGED <<running, is_worker, close_count, pool_running, msgs,
                           consuming_count, connected, readyFile, heartbeatFile>>
            /\ UNCHANGED workPc /\ workPc' # "exited"]_vars

\* MaxSignals signals were handled in a process that has registered tasks
\* and is not a worker.
C19_Witness ==
    /\ ~is_worker
    /\ signals = MaxSignals
    /\ ktasks # <<>>
    /\ close_count = 0 /\ workPc = "setup"

-----------------------------------------------------------------------------
(* Properties of the consuming_count gauge *)

\* The _on_message handlers that have started and not ended: the ones
\* suspended in message.reject (a handler that spawns its task ends in the
\* run of the event loop that started it).
ActiveHandlers == {m \in DOMAIN msgs : msgs[m].st = "rejecting"}

\* The _start_consumer activities that have started and not ended.
ActiveActivities ==
    {a \in Activities : activities[a].pc \in {"starting", "polling", "executing",
                                              "stopping"}}

\* C21: consuming_count is never negative and equals the number of active
\* AMQP message handlers plus active log-broker consumer activities: every
\* increment is matched by one decrement, also when the handler or activity
\* ends with an error, and the gauge is 0 whenever none is active.
C21_GaugeCountsActive ==
    /\ consuming_count >= 0
    /\ consuming_count = Cardinality(ActiveHandlers) + Cardinality(ActiveActivities)

\* A consumer activity has ended with an error while another one is still
\* polling: the gauge went from 2 to 1.
C21_Witness ==
    /\ consuming_count = 1
    /\ \E a, b \in Activities :
        activities[a].pc = "failed" /\ activities[b].pc = "polling"

\* C23: however config(...).delay(...) invocations on the task interleave,
\* the message an invocation has published carries the priority and headers
\* given to its own config() call.
C23_OwnConfigPublished ==
    \A i \in Delays :
        (~test /\ delays[i].cfg.given /\ delays[i].pc = "returned") =>
            /\ delays[i].msg.priority = delays[i].cfg.priority
            /\ delays[i].msg.headers = delays[i].cfg.headers

-----------------------------------------------------------------------------
(* Properties of the log-broker driver *)

\* The consumers are configured with enable_auto_commit=False, the only
\* configuration under which _start_consumer would commit by itself.
enable_auto_commit == FALSE

\* The handling of the record activity a polled has ended.
KHandled(a) == activities[a].outcome # "none"

\* The record activity a polled named a registered task and its callable ran.
KAccepted(a) == activities[a].outcome \in {"returned", "raised", "timeout"}

\* C11: in the consumer loop of the log-broker driver, once a polled record
\* was accepted by dispatch and the consumer has no automatic offset commit,
\* the driver has committed the offset when the handling of the record is
\* over (before the next poll); and no commit is made without a record that
\* was handed to dispatch.
C11_CommitAfterAccept ==
    \A a \in Activities :
        /\ (KAccepted(a) /\ ~enable_auto_commit) => activities[a].commits = 1
        /\ ~KHandled(a) => activities[a].commits = 0

\* C12: when the callable of a consumed record raised (or the record could not
\* be decoded or named an unknown task), the error is logged, the offset is
\* committed, and the activity is back in its loop (polling, or stopping
\* because running is false): the bad record did not end it.
C12_BadRecordKeepsConsumer ==
    \A a \in Activities :
        activities[a].outcome \in {"load_failed", "raised"} =>
            /\ activities[a].logged
            /\ enable_auto_commit \/ activities[a].commits = 1
            /\ activities[a].pc \in {"polling", "stopping", "stopped"}

\* The pools the registered tasks are declared on.
PoolsUsed == {ktasks[i].pool : i \in DOMAIN ktasks}

\* The topics of the tasks declared on pool p.
TopicsOn(p) == {ktasks[i].topic : i \in {j \in DOMAIN ktasks : ktasks[j].pool = p}}

\* C18: once run_worker has run _run_worker, there is exactly one consumer
\* activity per distinct pool among the registered tasks, each subscribing to
\* exactly the topics of the tasks declared on its pool; with tasks on the two
\* pools P1 and P2 there are exactly two activities.
C18_OneConsumerPerPool ==
    workPc # "setup" =>
        /\ Len(activities) = Cardinality(PoolsUsed)
        /\ \A p \in PoolsUsed :
            Cardinality({a \in Activities : activities[a].pool = p}) = 1
        /\ \A a \in Activities :
            /\ activities[a].pool \in PoolsUsed
            /\ {activities[a].topics[j] : j \in DOMAIN activities[a].topics}
                  = TopicsOn(activities[a].pool)
        /\ PoolsUsed = {"P1", "P2"} => Len(activities) = 2

\* Two tasks on two pools with different topics: both activities have
\* started and are polling.
C18_Witness ==
    /\ Len(activities) = 2
    /\ PoolsUsed = {"P1", "P2"}
    /\ TopicsOn("P1") # TopicsOn("P2")
    /\ \A a \in Activities : activities[a].pc = "polling"

====
